---- MODULE Spec2Model ----
(***************************************************************************)
(* Puerto Vallarta flight tracker: the three fetch scripts (FlightAware    *)
(* scrape, FlightAware AeroAPI, AviationStack) as one state machine over   *)
(* the output file data/flights.json, with the normalisation of raw        *)
(* upstream records as operators.                                          *)
(*                                                                         *)
(* JavaScript values: a string is a TLA+ string, null and undefined are    *)
(* the two sentinel strings below, a timestamp is a record (see Iso).      *)
(***************************************************************************)
EXTENDS Integers, Sequences, FiniteSets, TLC

\* ------------------------------------------------------------------ bounds

\* The upstream returns at most MaxRecs raw records in one run, arrivals and
\* departures together.
MaxRecs == 2

\* ----------------------------------------------------------- JS values

NULL == "<null>"
UNDEFINED == "<undefined>"

\* JavaScript truthiness of a string-or-null-or-undefined value.
Falsy(v) == v \in {NULL, UNDEFINED, ""}

\* a || b
Or(a, b) == IF Falsy(a) THEN b ELSE a

\* ------------------------------------------------------------ timestamps
\* A timestamp value as the upstream writes it.
\*   kind "iso":  "<d>T<tod><suffix>", d the calendar day written in the
\*                string, tod the minute of the day written in it, off the
\*                UTC offset of the suffix in minutes (0 for "Z").
\*   kind "hhmm": a bare "H:MM" with an optional AM/PM, as the scrape's
\*                time pattern matches it (no date, no offset).
\*   kind "null" / "undefined": the JavaScript values.

Iso(d, tod, off) ==
    [kind |-> "iso", d |-> d, tod |-> tod, off |-> off, ampm |-> ""]

HhMm(tod, ampm) ==
    [kind |-> "hhmm", d |-> 0, tod |-> tod, off |-> 0, ampm |-> ampm]

NullTs == [kind |-> "null", d |-> 0, tod |-> 0, off |-> 0, ampm |-> ""]

UndefTs == [kind |-> "undefined", d |-> 0, tod |-> 0, off |-> 0, ampm |-> ""]

\* !t for a timestamp value
TsFalsy(t) == t.kind \in {"null", "undefined"}

\* t || null
TsOrNull(t) == IF TsFalsy(t) THEN NullTs ELSE t

\* The instant an ISO timestamp denotes, in minutes of UTC.
Instant(t) == t.d * (24 * 60) + t.tod - t.off

\* UTC offset of CONFIG.timezone, America/Mexico_City, in minutes.
TZOffsetMin == -360

\* The calendar day of an instant in CONFIG.timezone.
LocalDate(inst) == (inst + TZOffsetMin) \div (24 * 60)

\* new Date().toLocaleDateString('en-CA', { timeZone: CONFIG.timezone })
Today(nowInst) == LocalDate(nowInst)

\* ----------------------------------------------------------- sequences

Range(s) == {s[i] : i \in 1..Len(s)}

\* ---------------------------------------------------------------- Flight
\* The canonical Flight object is a record with the keys flightNumber,
\* airline, airlineCode, origin, originCode, destination, destinationCode,
\* scheduled, estimated, actual, status, terminal, gate. A key a script never
\* sets is UNDEFINED (UndefTs for a time).

EmDash == "--"   \* stands for the placeholder U+2014

\* ------------------------------------------------- AeroAPI: processFlights
\* A raw AeroAPI flight object, flattened: origin_name is flight.origin?.name.

AeroStatus(flight, isArrival) ==
    IF flight.cancelled THEN "Cancelled"
    ELSE IF flight.diverted THEN "Diverted"
    ELSE IF ~TsFalsy(flight.actual_on) \/ ~TsFalsy(flight.actual_off)
         THEN (IF isArrival THEN "Landed" ELSE "Departed")
    ELSE IF ~TsFalsy(flight.estimated_on) \/ ~TsFalsy(flight.estimated_off)
         THEN "En Route"
    ELSE "Scheduled"

AeroFlightNumber(flight) == Or(flight.ident_iata, Or(flight.ident, EmDash))

\* AeroOrigin without its fallbacks: an arrival whose upstream record names no
\* origin gets none.
AeroOriginNoFallback(flight, isArrival) ==
    IF isArrival THEN flight.origin_name ELSE NULL

AeroOrigin(flight, isArrival) ==
    IF isArrival THEN Or(flight.origin_name, Or(flight.origin_city, "Unknown"))
    ELSE NULL

AeroOriginCode(flight, isArrival) ==
    IF isArrival THEN Or(flight.origin_code_iata, Or(flight.origin_code, ""))
    ELSE NULL

AeroDestination(flight, isArrival) ==
    IF ~isArrival
    THEN Or(flight.destination_name, Or(flight.destination_city, "Unknown"))
    ELSE NULL

AeroDestinationCode(flight, isArrival) ==
    IF ~isArrival
    THEN Or(flight.destination_code_iata, Or(flight.destination_code, ""))
    ELSE NULL

AeroMap(flight, isArrival) ==
    [flightNumber |-> AeroFlightNumber(flight),
     airline |-> Or(flight.operator_name, Or(flight.operator, EmDash)),
     airlineCode |-> Or(flight.operator, ""),
     origin |-> AeroOrigin(flight, isArrival),
     originCode |-> AeroOriginCode(flight, isArrival),
     destination |-> AeroDestination(flight, isArrival),
     destinationCode |-> AeroDestinationCode(flight, isArrival),
     scheduled |-> IF isArrival THEN flight.scheduled_on ELSE flight.scheduled_off,
     estimated |-> IF isArrival THEN flight.estimated_on ELSE flight.estimated_off,
     actual |-> IF isArrival THEN flight.actual_on ELSE flight.actual_off,
     status |-> AeroStatus(flight, isArrival),
     terminal |-> IF isArrival THEN Or(flight.arrival_terminal, NULL)
                  ELSE Or(flight.departure_terminal, NULL),
     gate |-> IF isArrival THEN Or(flight.arrival_gate, NULL)
              ELSE Or(flight.departure_gate, NULL)]

\* flight.scheduled.split('T')[0] === today: the calendar day written in the
\* string, whatever its offset. A string without a date never equals today.
AeroKeep(flight, today) ==
    /\ ~TsFalsy(flight.scheduled)
    /\ flight.scheduled.kind = "iso"
    /\ flight.scheduled.d = today

\* Collation rank of the offset suffix: "-hh:mm" before "+hh:mm" before "Z".
SuffixRank(off) == IF off < 0 THEN 0 ELSE IF off > 0 THEN 1 ELSE 2

\* (a.scheduled || '').localeCompare(b.scheduled || '') < 0 on the strings:
\* the day written, then the time of day written, then the suffix. The empty
\* string comes before every timestamp.
AeroLess(a, b) ==
    IF TsFalsy(b.scheduled) THEN FALSE
    ELSE IF TsFalsy(a.scheduled) THEN TRUE
    ELSE \/ a.scheduled.d < b.scheduled.d
         \/ /\ a.scheduled.d = b.scheduled.d
            /\ a.scheduled.tod < b.scheduled.tod
         \/ /\ a.scheduled.d = b.scheduled.d
            /\ a.scheduled.tod = b.scheduled.tod
            /\ SuffixRank(a.scheduled.off) < SuffixRank(b.scheduled.off)

\* Array.prototype.sort with that comparator, which is stable: x is put
\* before the first flight it compares less than, flights that compare equal
\* keep their order.
RECURSIVE AeroInsert(_, _)
AeroInsert(x, sorted) ==
    IF sorted = <<>> THEN <<x>>
    ELSE IF AeroLess(x, Head(sorted)) THEN <<x>> \o sorted
    ELSE <<Head(sorted)>> \o AeroInsert(x, Tail(sorted))

RECURSIVE AeroSort(_)
AeroSort(flights) ==
    IF flights = <<>> THEN <<>>
    ELSE AeroInsert(flights[Len(flights)],
                    AeroSort(SubSeq(flights, 1, Len(flights) - 1)))

AeroProcessFlights(flights, type, nowInst) ==
    LET isArrival == type = "arrival"
        today == Today(nowInst)
        mapped == [i \in 1..Len(flights) |-> AeroMap(flights[i], isArrival)]
        Keep(f) == AeroKeep(f, today)
    IN  AeroSort(SelectSeq(mapped, Keep))

\* ------------------------------------------- AviationStack: processFlights
\* A raw AviationStack flight object, flattened: departure_airport is
\* flight.departure?.airport, flight_iata is flight.flight?.iata.

\* A flight_date value "YYYY-MM-DD".
DateOf(d) == [kind |-> "date", d |-> d, tod |-> 0, off |-> 0, ampm |-> ""]

\* String.prototype.toLowerCase on the status texts the model draws.
ToLowerCase(s) ==
    CASE s = "Active" -> "active"
      [] s = "LANDED" -> "landed"
      [] s = "Unknown" -> "unknown"
      [] OTHER -> s

\* status.charAt(0).toUpperCase() + status.slice(1) on those texts.
Capitalize(s) ==
    CASE s = "unknown" -> "Unknown"
      [] s = "redirected" -> "Redirected"
      [] s = "active" -> "Active"
      [] s = "landed" -> "Landed"
      [] OTHER -> s

StatusMap ==
    ("scheduled" :> "Scheduled") @@ ("active" :> "En Route") @@
    ("landed" :> "Landed") @@ ("cancelled" :> "Cancelled") @@
    ("incident" :> "Incident") @@ ("diverted" :> "Diverted") @@
    ("delayed" :> "Delayed")

NormalizeStatus(status) ==
    IF Falsy(status) THEN "Scheduled"
    ELSE IF ToLowerCase(status) \in DOMAIN StatusMap
         THEN StatusMap[ToLowerCase(status)]
    ELSE Capitalize(status)

\* flight.flight_date === today
AvKeepDate(flight, today) ==
    flight.flight_date.kind = "date" /\ flight.flight_date.d = today

AvFlightNumber(flight) == Or(flight.flight_iata, Or(flight.flight_icao, "N/A"))

AvOrigin(flight, isArrival) ==
    IF isArrival THEN Or(flight.departure_airport, "Unknown") ELSE NULL

AvOriginCode(flight, isArrival) ==
    IF isArrival THEN Or(flight.departure_iata, "") ELSE NULL

AvDestination(flight, isArrival) ==
    IF ~isArrival THEN Or(flight.arrival_airport, "Unknown") ELSE NULL

AvDestinationCode(flight, isArrival) ==
    IF ~isArrival THEN Or(flight.arrival_iata, "") ELSE NULL

AvScheduled(flight, isArrival) ==
    IF isArrival THEN TsOrNull(flight.arrival_scheduled)
    ELSE TsOrNull(flight.departure_scheduled)

AvMap(flight, isArrival) ==
    [flightNumber |-> AvFlightNumber(flight),
     airline |-> Or(flight.airline_name, "Unknown Airline"),
     airlineCode |-> Or(flight.airline_iata, Or(flight.airline_icao, "")),
     origin |-> AvOrigin(flight, isArrival),
     originCode |-> AvOriginCode(flight, isArrival),
     destination |-> AvDestination(flight, isArrival),
     destinationCode |-> AvDestinationCode(flight, isArrival),
     scheduled |-> AvScheduled(flight, isArrival),
     estimated |-> IF isArrival THEN TsOrNull(flight.arrival_estimated)
                   ELSE TsOrNull(flight.departure_estimated),
     actual |-> IF isArrival THEN TsOrNull(flight.arrival_actual)
                ELSE TsOrNull(flight.departure_actual),
     status |-> NormalizeStatus(flight.flight_status),
     terminal |-> IF isArrival THEN Or(flight.arrival_terminal, NULL)
                  ELSE Or(flight.departure_terminal, NULL),
     gate |-> IF isArrival THEN Or(flight.arrival_gate, NULL)
              ELSE Or(flight.departure_gate, NULL)]

\* .filter(flight => flight.flightNumber !== 'N/A')
AvValid(flight) == flight.flightNumber # "N/A"

AvProcessFlights(flights, type, nowInst) ==
    LET isArrival == type = "arrival"
        today == Today(nowInst)
        KeepDate(f) == AvKeepDate(f, today)
        ofToday == SelectSeq(flights, KeepDate)
        mapped == [i \in 1..Len(ofToday) |-> AvMap(ofToday[i], isArrival)]
    IN  SelectSeq(mapped, AvValid)

\* ------------------------------------------------- scrape: scrapeFlights
\* A table row as the page's DOM gives it: nCells the number of td cells,
\* linkText the trimmed text of the row's flight link (UNDEFINED without
\* one), cell0Text the first cell's trimmed text, locLinkText the trimmed
\* text of the link in the second cell (UNDEFINED without one), locHrefCode
\* what /airport\/([A-Z]{3,4})/ captures in its href ("" without a match),
\* locCellText the second cell's trimmed text, time0 the first match of the
\* time pattern in the row's text (UndefTs without one), statusText the last
\* cell's trimmed text.

AirlineTable ==
    ("AA" :> "American Airlines") @@
    ("DL" :> "Delta Air Lines") @@
    ("UA" :> "United Airlines") @@
    ("WN" :> "Southwest Airlines") @@
    ("AS" :> "Alaska Airlines") @@
    ("B6" :> "JetBlue Airways") @@
    ("NK" :> "Spirit Airlines") @@
    ("F9" :> "Frontier Airlines") @@
    ("AM" :> "Aeromexico") @@
    ("5D" :> "AeroMexico Connect") @@
    ("Y4" :> "Volaris") @@
    ("VB" :> "VivaAerobus") @@
    ("AC" :> "Air Canada") @@
    ("WS" :> "WestJet") @@
    ("TS" :> "Air Transat") @@
    ("PD" :> "Porter Airlines") @@
    ("SY" :> "Sun Country Airlines") @@
    ("G4" :> "Allegiant Air") @@
    ("MX" :> "Mexicana") @@
    ("BA" :> "British Airways") @@
    ("AF" :> "Air France") @@
    ("KL" :> "KLM") @@
    ("LH" :> "Lufthansa") @@
    ("VS" :> "Virgin Atlantic") @@
    ("IB" :> "Iberia") @@
    ("AV" :> "Avianca") @@
    ("CM" :> "Copa Airlines") @@
    ("LA" :> "LATAM Airlines") @@
    ("EK" :> "Emirates") @@
    ("QR" :> "Qatar Airways") @@
    ("JL" :> "Japan Airlines") @@
    ("NH" :> "ANA") @@
    ("KE" :> "Korean Air") @@
    ("OZ" :> "Asiana Airlines") @@
    ("CX" :> "Cathay Pacific") @@
    ("SQ" :> "Singapore Airlines") @@
    ("QF" :> "Qantas") @@
    ("NZ" :> "Air New Zealand") @@
    ("HA" :> "Hawaiian Airlines") @@
    ("AY" :> "Finnair") @@
    ("SK" :> "SAS") @@
    ("LX" :> "Swiss International") @@
    ("OS" :> "Austrian Airlines") @@
    ("SN" :> "Brussels Airlines") @@
    ("TP" :> "TAP Portugal") @@
    ("EI" :> "Aer Lingus") @@
    ("TK" :> "Turkish Airlines") @@
    ("MS" :> "EgyptAir") @@
    ("ET" :> "Ethiopian Airlines") @@
    ("SA" :> "South African Airways") @@
    ("QS" :> "SmartWings") @@
    ("4O" :> "Interjet")

\* code.toUpperCase(): the codes the scrape extracts are upper-case letters.
ToUpperCase(code) == code

GetAirlineName(code) ==
    IF Falsy(code) THEN "Unknown"
    ELSE IF ToUpperCase(code) \in DOMAIN AirlineTable
         THEN AirlineTable[ToUpperCase(code)]
    ELSE code

\* flightNumber.match(/^[A-Z]{2,3}/)?.[0] || '' on the flight numbers the
\* model draws: the leading two or three capital letters, none when a digit
\* stands in the first two places.
AlphaPrefix(flightNumber) ==
    CASE flightNumber = "AM123" -> "AM"
      [] flightNumber = "UA5" -> "UA"
      [] flightNumber = "AMX123" -> "AMX"
      [] flightNumber = "ZZ9" -> "ZZ"
      [] OTHER -> ""

\* The keywords of the status clean-up that occur in text.toLowerCase(), on
\* the status texts the model draws.
KeywordsIn(text) ==
    CASE text = "Landed" -> {"landed"}
      [] text = "En Route" -> {"en route"}
      [] text = "In Air" -> {"in air"}
      [] text = "Active" -> {"active"}
      [] text = "Scheduled" -> {"scheduled"}
      [] text = "Cancelled" -> {"cancelled"}
      [] text = "Canceled" -> {"canceled"}
      [] text = "Delayed" -> {"delayed"}
      [] text = "Departed" -> {"departed"}
      [] text = "Arrived" -> {"arrived"}
      [] text = "Cancelled (was scheduled)" -> {"cancelled", "scheduled"}
      [] text = "Scheduled, delayed" -> {"scheduled", "delayed"}
      [] text = "Landed, was en route" -> {"landed", "en route"}
      [] text = "scheduled" -> {"scheduled"}
      [] text = "landed" -> {"landed"}
      [] text = "active" -> {"active"}
      [] OTHER -> {}

\* s.includes(keyword)
Includes(text, keyword) == keyword \in KeywordsIn(text)

ScrapeStatus(statusText) ==
    LET status == Or(statusText, "Scheduled")
    IN  IF Includes(status, "landed") THEN "Landed"
        ELSE IF \/ Includes(status, "en route")
                \/ Includes(status, "in air")
                \/ Includes(status, "active") THEN "En Route"
        ELSE IF Includes(status, "scheduled") THEN "Scheduled"
        ELSE IF Includes(status, "cancelled") \/ Includes(status, "canceled")
             THEN "Cancelled"
        ELSE IF Includes(status, "delayed") THEN "Delayed"
        ELSE IF Includes(status, "departed") THEN "Departed"
        ELSE IF Includes(status, "arrived") THEN "Landed"
        ELSE status

RowFlightNumber(row) ==
    LET fromLink == IF row.linkText # UNDEFINED THEN row.linkText ELSE ""
    IN  IF Falsy(fromLink) /\ row.nCells >= 1 THEN row.cell0Text ELSE fromLink

\* The rows the forEach callback does not return early from.
RowYieldsFlight(row) ==
    /\ ~(row.nCells < 3)
    /\ ~(Falsy(RowFlightNumber(row)) \/ Len(RowFlightNumber(row)) < 2)

RowLocationText(row) ==
    IF row.locLinkText # UNDEFINED THEN row.locLinkText
    ELSE Or(row.locCellText, "")

RowLocationCode(row) ==
    IF row.locLinkText # UNDEFINED THEN Or(row.locHrefCode, "") ELSE ""

RowScheduled(row) == TsOrNull(row.time0)

\* The flight object of one row, with the airline name scrapeFlights adds.
ScrapeMap(row, flightType) ==
    [flightNumber |-> RowFlightNumber(row),
     airline |-> GetAirlineName(AlphaPrefix(RowFlightNumber(row))),
     airlineCode |-> AlphaPrefix(RowFlightNumber(row)),
     origin |-> IF flightType = "arrivals" THEN RowLocationText(row) ELSE NULL,
     originCode |-> IF flightType = "arrivals" THEN RowLocationCode(row) ELSE NULL,
     destination |-> IF flightType = "arrivals" THEN NULL ELSE RowLocationText(row),
     destinationCode |-> IF flightType = "arrivals" THEN NULL
                         ELSE RowLocationCode(row),
     scheduled |-> RowScheduled(row),
     estimated |-> UndefTs,
     actual |-> UndefTs,
     status |-> ScrapeStatus(row.statusText),
     terminal |-> UNDEFINED,
     gate |-> UNDEFINED]

\* What scrapeFlights returns for a page whose table holds rows.
ScrapeRows(rows, flightType) ==
    LET kept == SelectSeq(rows, RowYieldsFlight)
    IN  [i \in 1..Len(kept) |-> ScrapeMap(kept[i], flightType)]

\* ------------------------------------------------------ the output file

\* The static airport descriptor each script writes.
Airport(v) ==
    [code |-> "PVR",
     icao |-> IF v = "aero" THEN "MMPR" ELSE UNDEFINED,
     name |-> "Gustavo Diaz Ordaz International Airport",
     city |-> "Puerto Vallarta",
     timezone |-> "America/Mexico_City"]

\* flightData of main: a Snapshot without an error key.
FlightData(v, nowInst, arr, dep) ==
    [lastUpdated |-> nowInst, airport |-> Airport(v), arrivals |-> arr,
     departures |-> dep, error |-> UNDEFINED]

ErrorText == "Failed to fetch flight data. Will retry on next scheduled run."

\* emptyData with its error key forgotten.
EmptyDataNoError(v, nowInst) == FlightData(v, nowInst, <<>>, <<>>)

\* emptyData of saveEmptyData.
EmptyData(v, nowInst) ==
    [lastUpdated |-> nowInst, airport |-> Airport(v), arrivals |-> <<>>,
     departures |-> <<>>, error |-> ErrorText]

\* fs.writeFileSync(CONFIG.outputPath, JSON.stringify(data, null, 2)): the
\* file, absent (<<>>) or holding one document, is replaced in full.
SaveFlightData(data) == <<data>>

\* ------------------------------------------------- what the upstream sends
\* "Now" is one of two instants of local day 1 in America/Mexico_City: 06:00
\* local (12:00Z of day 1) and 21:00 local (03:00Z of day 2).
NowSet == {1 * (24 * 60) + 12 * 60, 2 * (24 * 60) + 3 * 60}

TsMorning == Iso(1, 8 * 60, TZOffsetMin)           \* 08:00 local, day 1
TsNoonZ == Iso(1, 18 * 60, 0)                      \* 12:00 local, day 1, in Z
TsNoon == Iso(1, 12 * 60, TZOffsetMin)             \* 12:00 local, day 1
TsLateLocal == Iso(1, 23 * 60 + 59, TZOffsetMin)   \* 23:59 local, day 1
TsLateZ == Iso(2, 5 * 60 + 59, 0)                  \* the same instant, in Z
TsTomorrowLocal == Iso(2, 1, TZOffsetMin)          \* 00:01 local, day 2
TsTomorrowZ == Iso(2, 6 * 60 + 1, 0)               \* the same instant, in Z
TsEarlyZ == Iso(1, 3 * 60, 0)                      \* 21:00 local, day 0, in Z

\* A raw AeroAPI flight: ident_iata, the scheduled time (on and off), the
\* actual time (on and off), and whether origin and destination are given.
AeroRec(iata, sched, actual, loc) ==
    [ident_iata |-> iata,
     ident |-> IF iata = UNDEFINED THEN UNDEFINED ELSE "AMX123",
     operator_name |-> UNDEFINED, operator |-> "AMX",
     origin_name |-> IF loc THEN "Los Angeles Intl" ELSE UNDEFINED,
     origin_city |-> IF loc THEN "Los Angeles" ELSE UNDEFINED,
     origin_code_iata |-> IF loc THEN "LAX" ELSE UNDEFINED,
     origin_code |-> IF loc THEN "KLAX" ELSE UNDEFINED,
     destination_name |-> IF loc THEN "Benito Juarez Intl" ELSE UNDEFINED,
     destination_city |-> IF loc THEN "Mexico City" ELSE UNDEFINED,
     destination_code_iata |-> IF loc THEN "MEX" ELSE UNDEFINED,
     destination_code |-> IF loc THEN "MMMX" ELSE UNDEFINED,
     scheduled_on |-> sched, scheduled_off |-> sched,
     estimated_on |-> NullTs, estimated_off |-> NullTs,
     actual_on |-> actual, actual_off |-> actual,
     cancelled |-> FALSE, diverted |-> FALSE,
     arrival_terminal |-> NULL, departure_terminal |-> NULL,
     arrival_gate |-> NULL, departure_gate |-> NULL]

AeroRaw ==
    {AeroRec("AM123", TsNoonZ, NullTs, TRUE),
     AeroRec("AM123", TsNoonZ, TsNoonZ, TRUE),
     AeroRec(UNDEFINED, TsNoonZ, NullTs, TRUE),
     AeroRec("UA5", NullTs, NullTs, TRUE),
     AeroRec("UA5", TsMorning, NullTs, FALSE),
     AeroRec("UA5", TsLateLocal, NullTs, TRUE),
     AeroRec("UA5", TsLateZ, NullTs, TRUE),
     AeroRec("UA5", TsTomorrowLocal, NullTs, TRUE),
     AeroRec("UA5", TsEarlyZ, NullTs, TRUE),
     [AeroRec("AM123", TsNoon, NullTs, TRUE) EXCEPT !.operator = "AM"],
     [AeroRec("UA5", TsNoon, NullTs, TRUE) EXCEPT !.actual_off = TsMorning],
     [AeroRec("UA5", TsNoon, NullTs, TRUE)
         EXCEPT !.estimated_on = TsNoon, !.estimated_off = TsMorning],
     [AeroRec("UA5", TsNoon, NullTs, TRUE) EXCEPT !.cancelled = TRUE],
     [AeroRec("UA5", TsNoon, NullTs, TRUE)
         EXCEPT !.diverted = TRUE, !.actual_off = TsMorning]}

\* A raw AviationStack flight: flight_date, flight.iata, the scheduled time
\* (of departure and of arrival), flight_status, and whether the airports of
\* departure and arrival are given.
AvRec(date, iata, sched, status, loc) ==
    [flight_date |-> date,
     flight_iata |-> iata,
     flight_icao |-> IF iata = UNDEFINED THEN UNDEFINED ELSE "AMX123",
     airline_name |-> "Aeromexico", airline_iata |-> "AM",
     airline_icao |-> "AMX",
     departure_airport |-> IF loc THEN "Los Angeles Intl" ELSE UNDEFINED,
     departure_iata |-> IF loc THEN "LAX" ELSE UNDEFINED,
     departure_scheduled |-> sched, departure_estimated |-> NullTs,
     departure_actual |-> NullTs,
     departure_terminal |-> NULL, departure_gate |-> NULL,
     arrival_airport |-> IF loc THEN "Benito Juarez Intl" ELSE UNDEFINED,
     arrival_iata |-> IF loc THEN "MEX" ELSE UNDEFINED,
     arrival_scheduled |-> sched, arrival_estimated |-> NullTs,
     arrival_actual |-> NullTs,
     arrival_terminal |-> NULL, arrival_gate |-> NULL,
     flight_status |-> status]

\* The arrival record of the spec's end-to-end example, which names
\* flight.iata, airline.name, departure.airport, departure.iata, the two
\* scheduled times (14:30 and 16:05 of today, -06:00) and flight_status, and
\* no other key: flight_date among those it does not have.
ExampleArrival ==
    [flight_date |-> UndefTs,
     flight_iata |-> "AM123", flight_icao |-> UNDEFINED,
     airline_name |-> "Aeromexico", airline_iata |-> UNDEFINED,
     airline_icao |-> UNDEFINED,
     departure_airport |-> "LAX", departure_iata |-> "LAX",
     departure_scheduled |-> Iso(1, 14 * 60 + 30, TZOffsetMin),
     departure_estimated |-> UndefTs, departure_actual |-> UndefTs,
     departure_terminal |-> UNDEFINED, departure_gate |-> UNDEFINED,
     arrival_airport |-> UNDEFINED, arrival_iata |-> UNDEFINED,
     arrival_scheduled |-> Iso(1, 16 * 60 + 5, TZOffsetMin),
     arrival_estimated |-> UndefTs, arrival_actual |-> UndefTs,
     arrival_terminal |-> UNDEFINED, arrival_gate |-> UNDEFINED,
     flight_status |-> "active"]

AvRaw ==
    {ExampleArrival,
     AvRec(DateOf(1), "AM123", TsNoon, "scheduled", TRUE),
     AvRec(DateOf(1), "AM123", TsNoon, "landed", TRUE),
     AvRec(DateOf(1), UNDEFINED, TsNoon, "scheduled", TRUE),
     AvRec(DateOf(1), "UA5", NullTs, "scheduled", TRUE),
     AvRec(DateOf(1), "UA5", TsMorning, "active", FALSE),
     AvRec(DateOf(1), "UA5", TsLateLocal, "scheduled", TRUE),
     AvRec(DateOf(1), "UA5", TsTomorrowLocal, "scheduled", TRUE),
     AvRec(DateOf(0), "UA5", TsLateLocal, "scheduled", TRUE),
     AvRec(DateOf(2), "UA5", TsTomorrowZ, "unknown", TRUE),
     [AvRec(DateOf(1), "AM123", TsMorning, "landed", TRUE)
         EXCEPT !.airline_name = UNDEFINED]}

\* A table row: the flight link's text, the first time in the row, the last
\* cell's text, and whether the second cell names an airport.
ScrapeRow(n, link, time, statusText, loc) ==
    [nCells |-> n, linkText |-> link,
     cell0Text |-> IF link = UNDEFINED THEN "" ELSE link,
     locLinkText |-> IF loc THEN "Los Angeles Intl" ELSE UNDEFINED,
     locHrefCode |-> IF loc THEN "KLAX" ELSE "",
     locCellText |-> IF loc THEN "Los Angeles Intl (KLAX)" ELSE "",
     time0 |-> time, statusText |-> statusText]

ScrapeRaw ==
    {ScrapeRow(6, "AM123", HhMm(12 * 60 + 5, "PM"), "Scheduled", TRUE),
     ScrapeRow(6, "AM123", HhMm(12 * 60 + 5, "PM"), "Landed", TRUE),
     ScrapeRow(6, UNDEFINED, HhMm(12 * 60 + 5, "PM"), "Scheduled", TRUE),
     ScrapeRow(2, "UA5", HhMm(8 * 60, "AM"), "Scheduled", TRUE),
     ScrapeRow(6, "UA5", UndefTs, "En Route", TRUE),
     ScrapeRow(6, "UA5", HhMm(8 * 60, "AM"), "Taxiing", FALSE),
     ScrapeRow(6, "ZZ9", HhMm(23 * 60 + 59, ""), "", TRUE),
     ScrapeRow(6, "UA5", HhMm(8 * 60, "AM"), "Cancelled (was scheduled)", TRUE)}

\* The sequences over S of at most n elements.
ListsUpTo(S, n) == UNION {[1..k -> S] : k \in 0..n}

\* ------------------------------------------------------------- one run
VARIABLES
    variant,     \* which fetch script runs: "scrape", "aero" or "avstack"
    apiKey,      \* whether CONFIG.apiKey is set
    now,         \* the instant new Date() gives during the run
    pc,          \* where main is
    exited,      \* whether the process has ended
    exitCode,    \* its exit code once it has
    browser,     \* scrape: "none", "open" or "closed"
    fetchSt,     \* per direction, how its fetch or scrape went
    failure,     \* what sent main to its catch block ("none" if nothing)
    rawArr,      \* what the upstream gave for arrivals
    rawDep,      \* what the upstream gave for departures
    arrivals,    \* main's arrivals (scrape) / flightData.arrivals
    departures,  \* main's departures (scrape) / flightData.departures
    file,        \* data/flights.json: <<>> when absent, else <<document>>
    writes       \* the documents this run has written, in order

\* The page of the browser client (src/script-es.js holds the Spanish and the
\* English client, the same code but for its texts).
VARIABLES
    lang,         \* which client the page runs: "es" or "en"
    cpc,          \* where the page is: "closed", "loading", "fetching",
                  \* "parsing" or "done"
    response,     \* what the request for data/flights.json has given so far
    flightData,   \* <<>> for null, else <<the Snapshot parsed>>
    currentTab,   \* "arrivals" or "departures"
    activeBtn,    \* the tab button that carries the class active
    cityHeader,   \* text of #city-header
    updateTime,   \* content of #update-time
    flightDate,   \* content of #flight-date
    flightTbody   \* content of #flight-tbody

cvars ==
    <<lang, cpc, response, flightData, currentTab, activeBtn, cityHeader,
      updateTime, flightDate, flightTbody>>

\* What an element holds before any script has written to it.
InitialText == "<initial>"

\* An element that shows a time: its kind and, for a time, the instant.
TimeText(kind, inst) == [kind |-> kind, inst |-> inst]

\* #flight-tbody: the markup as served, an error row, the empty row, or the
\* flight rows.
Tbody(kind, text, rows) == [kind |-> kind, text |-> text, rows |-> rows]

\* The state of the closures when the script has been evaluated:
\* flightData = null, currentTab = 'arrivals', nothing written to the page.
ClientFresh ==
    /\ response = "none"
    /\ flightData = <<>>
    /\ currentTab = "arrivals"
    /\ activeBtn = "arrivals"
    /\ cityHeader = InitialText
    /\ updateTime = TimeText("initial", 0)
    /\ flightDate = TimeText("initial", 0)
    /\ flightTbody = Tbody("initial", "", <<>>)

\* No page is open.
ClientClosed == lang = "es" /\ cpc = "closed" /\ ClientFresh

vars ==
    <<variant, apiKey, now, pc, exited, exitCode, browser, fetchSt, failure,
      rawArr, rawDep, arrivals, departures, file, writes>>

Variants == {"scrape", "aero", "avstack"}

Dirs == {"arr", "dep"}

Other(dir) == IF dir = "arr" THEN "dep" ELSE "arr"

\* The document a previous run left behind.
OldSnapshot(v) == FlightData(v, 0, <<>>, <<>>)

Init ==
    /\ variant \in Variants
    /\ apiKey \in (IF variant = "scrape" THEN {FALSE} ELSE BOOLEAN)
    /\ now \in NowSet
    /\ pc = "start"
    /\ exited = FALSE
    /\ exitCode = 0
    /\ browser = "none"
    /\ fetchSt = [d \in Dirs |-> "idle"]
    /\ failure = "none"
    /\ rawArr = <<>>
    /\ rawDep = <<>>
    /\ arrivals = <<>>
    /\ departures = <<>>
    /\ file \in {<<>>, <<OldSnapshot(variant)>>}
    /\ writes = <<>>
    /\ ClientClosed

\* process.exit(code), or the end of main with nothing left to run.
Exit(code) ==
    /\ exited' = TRUE
    /\ exitCode' = code
    /\ pc' = "exited"

\* main, AeroAPI and AviationStack: "Validate API key".
CheckApiKey ==
    /\ pc = "start" /\ variant \in {"aero", "avstack"}
    /\ IF ~apiKey
       THEN /\ Exit(1)
            /\ UNCHANGED fetchSt
       ELSE /\ pc' = "fetching"
            /\ fetchSt' = [d \in Dirs |-> "pending"]
            /\ UNCHANGED <<exited, exitCode>>
    /\ UNCHANGED <<variant, apiKey, now, browser, failure, rawArr, rawDep,
                   arrivals, departures, file, writes>>
    /\ UNCHANGED cvars

\* main, AeroAPI: the one request for both directions. It throws (fetch
\* rejects, the response is not ok, the body is not JSON) or gives data.
AeroFetch ==
    /\ pc = "fetching" /\ variant = "aero"
    /\ \/ \E why \in {"fetchThrows", "non2xx", "nonJSON"} :
            /\ failure' = why
            /\ fetchSt' = [d \in Dirs |-> "failed"]
            /\ pc' = "catch"
            /\ UNCHANGED <<rawArr, rawDep>>
       \/ \E arr \in ListsUpTo(AeroRaw, MaxRecs) :
            \E dep \in ListsUpTo(AeroRaw, MaxRecs - Len(arr)) :
                /\ rawArr' = arr
                /\ rawDep' = dep
                /\ fetchSt' = [d \in Dirs |-> "ok"]
                /\ pc' = "assemble"
                /\ UNCHANGED failure
    /\ UNCHANGED <<variant, apiKey, now, exited, exitCode, browser, arrivals,
                   departures, file, writes>>
    /\ UNCHANGED cvars

\* fetchFlights(type), AviationStack: one of the two requests of Promise.all
\* settles. The first rejection rejects Promise.all and main goes to its
\* catch block; when both have resolved main goes on.
AvFetchSettle(dir) ==
    /\ variant = "avstack" /\ ~exited /\ fetchSt[dir] = "pending"
    /\ \/ \E why \in {"fetchThrows", "non2xx", "nonJSON", "errorPayload"} :
            /\ fetchSt' = [fetchSt EXCEPT ![dir] = "failed"]
            /\ IF pc = "fetching"
               THEN pc' = "catch" /\ failure' = why
               ELSE UNCHANGED <<pc, failure>>
            /\ UNCHANGED <<rawArr, rawDep>>
       \/ \E data \in ListsUpTo(AvRaw,
                 MaxRecs - Len(IF dir = "arr" THEN rawDep ELSE rawArr)) :
            /\ fetchSt' = [fetchSt EXCEPT ![dir] = "ok"]
            /\ IF dir = "arr"
               THEN rawArr' = data /\ UNCHANGED rawDep
               ELSE rawDep' = data /\ UNCHANGED rawArr
            /\ IF pc = "fetching" /\ fetchSt[Other(dir)] = "ok"
               THEN pc' = "assemble"
               ELSE UNCHANGED pc
            /\ UNCHANGED failure
    /\ UNCHANGED <<variant, apiKey, now, exited, exitCode, browser, arrivals,
                   departures, file, writes>>
    /\ UNCHANGED cvars

\* main, scrape: puppeteer.launch resolves or throws.
Launch ==
    /\ pc = "start" /\ variant = "scrape"
    /\ \/ /\ browser' = "open"
          /\ pc' = "scrapeArr"
          /\ UNCHANGED failure
       \/ /\ failure' = "launchThrows"
          /\ pc' = "catch"
          /\ UNCHANGED browser
    /\ UNCHANGED <<variant, apiKey, now, exited, exitCode, fetchSt, rawArr,
                   rawDep, arrivals, departures, file, writes>>
    /\ UNCHANGED cvars

\* AfterScrape without the join: main assembles as soon as one scrape returns.
AfterScrapeNoJoin(dir) == "assemble"

\* AfterScrape with every return of scrapeFlights treated as a throw.
AfterScrapeAbort(dir) == "catch"

\* Where main goes when scrapeFlights(browser, type) returns.
AfterScrape(dir) == IF dir = "arr" THEN "delay" ELSE "assemble"

\* scrapeFlights(browser, type), one whole call. Setting the page up, outside
\* its try, may throw into main, and so may page.close() in its finally;
\* inside the try a bot-protection page, a missing table and an exception
\* each give []; otherwise the rows found.
ScrapeFlights(dir) ==
    /\ variant = "scrape"
    /\ pc = (IF dir = "arr" THEN "scrapeArr" ELSE "scrapeDep")
    /\ \/ /\ failure' \in {"newPageThrows", "pageCloseThrows"}
          /\ fetchSt' = [fetchSt EXCEPT ![dir] = "failed"]
          /\ pc' = "catch"
          /\ UNCHANGED <<rawArr, rawDep, arrivals, departures>>
       \/ \E how \in {"blocked", "noTable", "caught"} :
            /\ fetchSt' = [fetchSt EXCEPT ![dir] = how]
            /\ IF dir = "arr"
               THEN arrivals' = <<>> /\ UNCHANGED departures
               ELSE departures' = <<>> /\ UNCHANGED arrivals
            /\ pc' = AfterScrape(dir)
            /\ UNCHANGED <<failure, rawArr, rawDep>>
       \/ \E rows \in ListsUpTo(ScrapeRaw,
                 MaxRecs - Len(IF dir = "arr" THEN rawDep ELSE rawArr)) :
            /\ fetchSt' = [fetchSt EXCEPT ![dir] = "ok"]
            /\ IF dir = "arr"
               THEN /\ rawArr' = rows
                    /\ arrivals' = ScrapeRows(rows, "arrivals")
                    /\ UNCHANGED <<rawDep, departures>>
               ELSE /\ rawDep' = rows
                    /\ departures' = ScrapeRows(rows, "departures")
                    /\ UNCHANGED <<rawArr, arrivals>>
            /\ pc' = AfterScrape(dir)
            /\ UNCHANGED failure
    /\ UNCHANGED <<variant, apiKey, now, exited, exitCode, browser, file,
                   writes>>
    /\ UNCHANGED cvars

\* main, scrape: the 2000 ms pause between the two scrapes.
Delay ==
    /\ pc = "delay" /\ variant = "scrape"
    /\ pc' = "scrapeDep"
    /\ UNCHANGED <<variant, apiKey, now, exited, exitCode, browser, fetchSt,
                   failure, rawArr, rawDep, arrivals, departures, file, writes>>
    /\ UNCHANGED cvars

\* flightData.arrivals and flightData.departures of main.
Processed(dir) ==
    CASE variant = "aero" ->
            IF dir = "arr" THEN AeroProcessFlights(rawArr, "arrival", now)
            ELSE AeroProcessFlights(rawDep, "departure", now)
      [] variant = "avstack" ->
            IF dir = "arr" THEN AvProcessFlights(rawArr, "arrival", now)
            ELSE AvProcessFlights(rawDep, "departure", now)
      [] variant = "scrape" ->
            IF dir = "arr" THEN arrivals ELSE departures

\* main: build flightData and saveFlightData(flightData).
Assemble ==
    /\ pc = "assemble"
    /\ arrivals' = Processed("arr")
    /\ departures' = Processed("dep")
    /\ file' = SaveFlightData(
                   FlightData(variant, now, Processed("arr"), Processed("dep")))
    /\ writes' = Append(writes, file'[1])
    /\ pc' = "saved"
    /\ UNCHANGED <<variant, apiKey, now, exited, exitCode, browser, fetchSt,
                   failure, rawArr, rawDep>>
    /\ UNCHANGED cvars

\* A throw after the save, still inside main's try: the catch block runs.
FinishThrows ==
    /\ pc = "saved"
    /\ pc' = "catch"
    /\ failure' = "afterSave"
    /\ UNCHANGED <<variant, apiKey, now, exited, exitCode, browser, fetchSt,
                   rawArr, rawDep, arrivals, departures, file, writes>>
    /\ UNCHANGED cvars

\* main returns after the summary; the scrape's finally closes the browser.
Finish ==
    /\ pc = "saved"
    /\ browser' = IF browser = "open" THEN "closed" ELSE browser
    /\ Exit(0)
    /\ UNCHANGED <<variant, apiKey, now, fetchSt, failure, rawArr, rawDep,
                   arrivals, departures, file, writes>>
    /\ UNCHANGED cvars

\* A catch block that saves what the fetches that resolved have given.
CatchSavePartial ==
    /\ pc = "catch"
    /\ file' = SaveFlightData(
                   FlightData(variant, now, Processed("arr"), Processed("dep")))
    /\ writes' = Append(writes, file'[1])
    /\ pc' = "catchExit"
    /\ UNCHANGED <<variant, apiKey, now, exited, exitCode, browser, fetchSt,
                   failure, rawArr, rawDep, arrivals, departures>>
    /\ UNCHANGED cvars

\* main's catch: await saveEmptyData().
CatchSave ==
    /\ pc = "catch"
    /\ file' = SaveFlightData(EmptyData(variant, now))
    /\ writes' = Append(writes, file'[1])
    /\ pc' = "catchExit"
    /\ UNCHANGED <<variant, apiKey, now, exited, exitCode, browser, fetchSt,
                   failure, rawArr, rawDep, arrivals, departures>>
    /\ UNCHANGED cvars

\* main's catch: process.exit(1). The process ends there: a finally block
\* after it does not run.
CatchExit ==
    /\ pc = "catchExit"
    /\ Exit(1)
    /\ UNCHANGED <<variant, apiKey, now, browser, fetchSt, failure, rawArr,
                   rawDep, arrivals, departures, file, writes>>
    /\ UNCHANGED cvars

Next ==
    \/ CheckApiKey
    \/ AeroFetch
    \/ \E dir \in Dirs : AvFetchSettle(dir)
    \/ Launch
    \/ \E dir \in Dirs : ScrapeFlights(dir)
    \/ Delay
    \/ Assemble
    \/ Finish
    \/ CatchSave
    \/ CatchExit

Spec == Init /\ [][Next]_<<vars, cvars>>

\* ------------------------------------------------- the browser client
\* Texts with a letter outside ASCII are written without the accent.

\* getStatusClass(status): the first fragment that status.toLowerCase()
\* includes, on the statuses the fetch scripts write.
GetStatusClass(status) ==
    IF Falsy(status) THEN "status-scheduled"
    ELSE CASE status \in {"Cancelled"} -> "status-cancelled"
           [] status \in {"Delayed"} -> "status-delayed"
           [] status \in {"Landed"} -> "status-landed"
           [] status \in {"Departed"} -> "status-departed"
           [] status \in {"Active", "En Route"} -> "status-active"
           [] status \in {"Scheduled"} -> "status-scheduled"
           [] OTHER -> "status-scheduled"

\* translateStatus(status) of the Spanish client: translations[key] || status.
TranslateStatus(status) ==
    IF Falsy(status) THEN "Programado"
    ELSE CASE status = "Scheduled" -> "Programado"
           [] status = "Active" -> "En vuelo"
           [] status = "Landed" -> "Aterrizo"
           [] status = "Cancelled" -> "Cancelado"
           [] status = "Delayed" -> "Retrasado"
           [] status = "Diverted" -> "Desviado"
           [] status = "Departed" -> "Despego"
           [] status = "En Route" -> "En vuelo"
           [] status = "Incident" -> "Incidente"
           [] OTHER -> status

\* formatStatus(status) of the English client: the first letter of every word
\* in upper case. The statuses the fetch scripts write have it already.
FormatStatus(status) ==
    IF Falsy(status) THEN "Scheduled" ELSE status

\* formatTime(timeStr): a dash without a time, the time of day in
\* America/Mexico_City of an ISO timestamp, and any other text as it is (it is
\* either "HH:MM" or no date that new Date can parse).
FormatTime(t) ==
    IF TsFalsy(t) THEN [kind |-> "dash", d |-> 0, tod |-> 0, off |-> 0, ampm |-> ""]
    ELSE IF t.kind = "iso"
         THEN HhMm((Instant(t) + TZOffsetMin) % (24 * 60), "")
    ELSE t

\* createFlightRow(flight): the cells of one row. The Snapshots the fetch
\* scripts write have no flight_iata, departure_city, arrival_city,
\* departure_iata or arrival_iata key: those read as undefined.
CreateFlightRow(flight, tab, l) ==
    LET status == Or(flight.status, "Scheduled")
    IN  [time |-> FormatTime(flight.scheduled),
         flightNumber |-> Or(flight.flightNumber, Or(UNDEFINED, EmDash)),
         airline |-> Or(flight.airline, EmDash),
         city |-> IF tab = "arrivals" THEN Or(flight.origin, Or(UNDEFINED, EmDash))
                  ELSE Or(flight.destination, Or(UNDEFINED, EmDash)),
         cityCode |-> IF tab = "arrivals" THEN Or(flight.originCode, Or(UNDEFINED, ""))
                      ELSE Or(flight.destinationCode, Or(UNDEFINED, "")),
         statusClass |-> GetStatusClass(status),
         statusText |-> IF l = "es" THEN TranslateStatus(status)
                        ELSE FormatStatus(status)]

\* new Date(a.scheduled || a.estimated || 0).getTime(): the instant of an ISO
\* timestamp, 0 when both are missing, NaN for a bare time of day.
ClientTime(flight) ==
    LET v == IF ~TsFalsy(flight.scheduled) THEN flight.scheduled
             ELSE flight.estimated
    IN  IF TsFalsy(v) THEN [nan |-> FALSE, t |-> 0]
        ELSE IF v.kind = "iso" THEN [nan |-> FALSE, t |-> Instant(v)]
        ELSE [nan |-> TRUE, t |-> 0]

\* timeA - timeB < 0; a NaN difference counts as 0.
ClientLess(a, b) ==
    /\ ~ClientTime(a).nan /\ ~ClientTime(b).nan
    /\ ClientTime(a).t < ClientTime(b).t

\* [...flights].sort(comparator), a stable sort.
RECURSIVE ClientInsert(_, _)
ClientInsert(x, sorted) ==
    IF sorted = <<>> THEN <<x>>
    ELSE IF ClientLess(x, Head(sorted)) THEN <<x>> \o sorted
    ELSE <<Head(sorted)>> \o ClientInsert(x, Tail(sorted))

RECURSIVE ClientSort(_)
ClientSort(flights) ==
    IF flights = <<>> THEN <<>>
    ELSE ClientInsert(flights[Len(flights)],
                      ClientSort(SubSeq(flights, 1, Len(flights) - 1)))

\* showEmpty(): the empty row, naming the current tab.
ShowEmpty(tab, l) ==
    Tbody("empty",
          IF l = "es"
          THEN (IF tab = "arrivals" THEN "No hay llegadas programadas para hoy"
                ELSE "No hay salidas programadas para hoy")
          ELSE (IF tab = "arrivals" THEN "No arrivals scheduled for today"
                ELSE "No departures scheduled for today"),
          <<>>)

\* The message loadFlightData's catch block hands to showError.
LoadErrorText(l) ==
    IF l = "es"
    THEN "No se pudo cargar la informacion de vuelos. Intente mas tarde."
    ELSE "Unable to load flight information. Please try again later."

\* showError(message)
ShowError(message) == Tbody("error", message, <<>>)

\* renderFlights() reading the arrivals whatever the current tab is.
RenderFlightsOfArrivals(data, tab, l, old) ==
    IF data = <<>> THEN old
    ELSE IF Len(data[1].arrivals) = 0 THEN ShowEmpty(tab, l)
    ELSE Tbody("rows", "",
               [i \in 1..Len(data[1].arrivals) |->
                   CreateFlightRow(ClientSort(data[1].arrivals)[i], tab, l)])

\* renderFlights(): what #flight-tbody holds afterwards, old being what it
\* held before.
RenderFlights(data, tab, l, old) ==
    IF data = <<>> THEN old
    ELSE LET flights == IF tab = "arrivals" THEN data[1].arrivals
                        ELSE data[1].departures
             sortedFlights == ClientSort(flights)
         IN  IF Len(flights) = 0 THEN ShowEmpty(tab, l)
             ELSE Tbody("rows", "",
                        [i \in 1..Len(sortedFlights) |->
                            CreateFlightRow(sortedFlights[i], tab, l)])

\* The raw records a script's upstream sends.
RawOf(v) ==
    CASE v = "aero" -> AeroRaw
      [] v = "avstack" -> AvRaw
      [] v = "scrape" -> ScrapeRaw

\* The list script v makes of the raw records of one direction.
ProcessedOf(v, raw, dir, nowInst) ==
    CASE v = "aero" ->
            AeroProcessFlights(raw, IF dir = "arr" THEN "arrival" ELSE "departure", nowInst)
      [] v = "avstack" ->
            AvProcessFlights(raw, IF dir = "arr" THEN "arrival" ELSE "departure", nowInst)
      [] v = "scrape" ->
            ScrapeRows(raw, IF dir = "arr" THEN "arrivals" ELSE "departures")

\* The raw records of the two directions, MaxRecs at most together.
RawPairs(v) ==
    UNION {{<<arr, dep>> : dep \in ListsUpTo(RawOf(v), MaxRecs - Len(arr))} :
              arr \in ListsUpTo(RawOf(v), MaxRecs)}

\* What data/flights.json can be when a page asks for it: absent, or the
\* document a run of script v at nowInst has written.
ClientFiles(v, nowInst) ==
    {<<>>, SaveFlightData(EmptyData(v, nowInst))}
        \cup {SaveFlightData(FlightData(v, nowInst,
                                        ProcessedOf(v, p[1], "arr", nowInst),
                                        ProcessedOf(v, p[2], "dep", nowInst))) :
                  p \in RawPairs(v)}

\* A page is opened on the file earlier runs have left.
InitClient ==
    /\ variant \in Variants
    /\ apiKey \in (IF variant = "scrape" THEN {FALSE} ELSE BOOLEAN)
    /\ now \in NowSet
    /\ pc = "start"
    /\ exited = FALSE
    /\ exitCode = 0
    /\ browser = "none"
    /\ fetchSt = [d \in Dirs |-> "idle"]
    /\ failure = "none"
    /\ rawArr = <<>>
    /\ rawDep = <<>>
    /\ arrivals = <<>>
    /\ departures = <<>>
    /\ file \in ClientFiles(variant, now)
    /\ writes = <<>>
    /\ lang \in {"es", "en"}
    /\ cpc = "loading"
    /\ ClientFresh

\* DOMContentLoaded: init() runs setupTabs() and loadFlightData() up to its
\* await of fetch.
DOMContentLoaded ==
    /\ cpc = "loading"
    /\ cpc' = "fetching"
    /\ UNCHANGED <<lang, response, flightData, currentTab, activeBtn,
                   cityHeader, updateTime, flightDate, flightTbody>>
    /\ UNCHANGED vars

\* The click listener of the tab button whose data-tab is tab.
ClickTab(tab) ==
    /\ cpc \in {"fetching", "parsing", "done"}
    /\ IF tab = currentTab
       THEN UNCHANGED <<currentTab, activeBtn, cityHeader, flightTbody>>
       ELSE /\ activeBtn' = tab
            /\ cityHeader' = (IF lang = "es"
                              THEN (IF tab = "arrivals" THEN "Origen" ELSE "Destino")
                              ELSE (IF tab = "arrivals" THEN "From" ELSE "To"))
            /\ currentTab' = tab
            /\ flightTbody' = RenderFlights(flightData, tab, lang, flightTbody)
    /\ UNCHANGED <<lang, cpc, response, flightData, updateTime, flightDate>>
    /\ UNCHANGED vars

\* loadFlightData: the await of fetch settles. fetch rejects, or gives a
\* response that is not ok (always so when the file is absent), or one that
\* is; the first two end in the catch block.
LoadFetchSettle ==
    /\ cpc = "fetching"
    /\ \/ /\ response' \in {"rejected", "notOk"}
          /\ flightTbody' = ShowError(LoadErrorText(lang))
          /\ cpc' = "done"
       \/ /\ file # <<>>
          /\ response' = "ok"
          /\ cpc' = "parsing"
          /\ UNCHANGED flightTbody
    /\ UNCHANGED <<lang, flightData, currentTab, activeBtn, cityHeader,
                   updateTime, flightDate>>
    /\ UNCHANGED vars

\* loadFlightData: the await of response.json() settles. It rejects on a body
\* that is not JSON; else flightData is the document, the two time elements
\* are written and renderFlights() runs.
LoadJsonSettle ==
    /\ cpc = "parsing"
    /\ \/ /\ response' = "badJson"
          /\ flightTbody' = ShowError(LoadErrorText(lang))
          /\ UNCHANGED <<flightData, updateTime, flightDate>>
       \/ /\ response' = "parsed"
          /\ flightData' = <<file[1]>>
          /\ updateTime' = TimeText("time", file[1].lastUpdated)
          /\ flightDate' = TimeText("date", LocalDate(file[1].lastUpdated))
          /\ flightTbody' = RenderFlights(<<file[1]>>, currentTab, lang, flightTbody)
    /\ cpc' = "done"
    /\ UNCHANGED <<lang, currentTab, activeBtn, cityHeader>>
    /\ UNCHANGED vars

NextClient ==
    \/ DOMContentLoaded
    \/ \E tab \in {"arrivals", "departures"} : ClickTab(tab)
    \/ LoadFetchSettle
    \/ LoadJsonSettle

SpecClient == InitClient /\ [][NextClient]_<<vars, cvars>>

\* ------------------------------------------------------------ properties

\* The documents this run has written that carry flight data / the fallback.
IsDegraded(doc) ==
    /\ doc.arrivals = <<>>
    /\ doc.departures = <<>>
    /\ doc.airport = Airport(variant)
    /\ ~Falsy(doc.error)
    /\ doc.lastUpdated = now

WellFormed(doc) ==
    /\ {"lastUpdated", "airport", "arrivals", "departures"} \subseteq DOMAIN doc
    /\ doc.lastUpdated \in Nat
    /\ doc.airport = Airport(variant)
    /\ doc.arrivals \in Seq(Range(doc.arrivals))
    /\ doc.departures \in Seq(Range(doc.departures))

\* Every flight list this run has written.
WrittenLists ==
    {writes[i].arrivals : i \in 1..Len(writes)}
        \cup {writes[i].departures : i \in 1..Len(writes)}

\* C1: once a run has ended, whatever its outcome, the output file exists and
\* holds a well-formed Snapshot.
C1_FileAfterEveryRun ==
    exited => (file # <<>> /\ WellFormed(file[1]))

\* C2: when an upstream failure has sent the run to its catch block, every
\* document the run writes is the degraded Snapshot (no arrivals, no
\* departures, the static airport, a lastUpdated, a non-empty error), and by
\* the end of the run exactly that document is in the file.
C2_DegradedOnFailure ==
    failure # "none" =>
        /\ \A i \in 1..Len(writes) : IsDegraded(writes[i])
        /\ pc \in {"catchExit", "exited"} =>
               (Len(writes) = 1 /\ file = <<writes[1]>>)

\* C2 witness: a run whose request got a non-2xx answer has ended, and the
\* file holds the fallback with its error text.
C2_Witness ==
    /\ exited /\ failure = "non2xx"
    /\ file # <<>> /\ file[1].error = ErrorText /\ file[1].arrivals = <<>>

\* A failure of the whole run: main's catch block was entered, or the
\* credential an API script needs is absent.
RunWideFailure ==
    failure # "none" \/ (variant \in {"aero", "avstack"} /\ ~apiKey)

\* C3: a run that hit a run-wide failure ends with a non-zero exit code, and
\* has written the degraded Snapshot by the time it has exited.
C3_FailureExitsAfterWrite ==
    (exited /\ RunWideFailure) =>
        /\ exitCode # 0
        /\ writes # <<>> /\ ~Falsy(writes[Len(writes)].error)

Unique(flights) ==
    \A i, j \in 1..Len(flights) :
        flights[i].flightNumber = flights[j].flightNumber => i = j

\* C4: in every Snapshot written, no two arrivals share a flight number and no
\* two departures share one.
C4_UniqueFlightNumbers ==
    \A list \in WrittenLists : Unique(list)

IsNull(v) == v \in {NULL, UNDEFINED}

\* C5: every arrival written has origin and originCode set and destination
\* and destinationCode null; every departure written the other way round.
C5_DirectionFields ==
    \A i \in 1..Len(writes) :
        /\ \A f \in Range(writes[i].arrivals) :
               /\ ~IsNull(f.origin) /\ ~IsNull(f.originCode)
               /\ f.destination = NULL /\ f.destinationCode = NULL
        /\ \A f \in Range(writes[i].departures) :
               /\ ~IsNull(f.destination) /\ ~IsNull(f.destinationCode)
               /\ f.origin = NULL /\ f.originCode = NULL

\* The raw field the counterpart airport's code comes from.
RawLocationGiven(r, dir) ==
    CASE variant = "aero" ->
            IF dir = "arr" THEN ~Falsy(r.origin_code_iata)
            ELSE ~Falsy(r.destination_code_iata)
      [] variant = "avstack" ->
            IF dir = "arr" THEN ~Falsy(r.departure_iata)
            ELSE ~Falsy(r.arrival_iata)
      [] variant = "scrape" -> r.locLinkText # UNDEFINED

\* C5 witness: a run has written one arrival and one departure, both from raw
\* records that name no counterpart airport.
C5_Witness ==
    /\ pc = "saved" /\ file # <<>>
    /\ Len(file[1].arrivals) = 1 /\ Len(file[1].departures) = 1
    /\ Len(rawArr) = 1 /\ ~RawLocationGiven(rawArr[1], "arr")
    /\ Len(rawDep) = 1 /\ ~RawLocationGiven(rawDep[1], "dep")

\* The non-empty flight numbers a raw record carries.
RawFlightNumbers(r) ==
    (CASE variant = "aero" -> {r.ident_iata, r.ident}
       [] variant = "avstack" -> {r.flight_iata, r.flight_icao}
       [] variant = "scrape" -> {r.linkText, r.cell0Text})
        \ {NULL, UNDEFINED, ""}

\* C6: the flight numbers written for a direction are among the non-empty
\* flight numbers of that direction's raw records.
C6_NoPlaceholderNumber ==
    \A i \in 1..Len(writes) :
        /\ \A f \in Range(writes[i].arrivals) :
               \E k \in 1..Len(rawArr) :
                   f.flightNumber \in RawFlightNumbers(rawArr[k])
        /\ \A f \in Range(writes[i].departures) :
               \E k \in 1..Len(rawDep) :
                   f.flightNumber \in RawFlightNumbers(rawDep[k])

\* C7: every flight written has a scheduled value.
C7_ScheduledNonNull ==
    \A list \in WrittenLists : \A f \in Range(list) : ~TsFalsy(f.scheduled)

\* The scheduled time of a raw record of an API script, for a direction.
RawScheduled(r, dir) ==
    CASE variant = "aero" ->
            IF dir = "arr" THEN r.scheduled_on ELSE r.scheduled_off
      [] variant = "avstack" ->
            IF dir = "arr" THEN r.arrival_scheduled ELSE r.departure_scheduled

\* The scheduled time, taken to the airport's timezone, is on today's date.
ScheduledToday(t) ==
    t.kind = "iso" /\ LocalDate(Instant(t)) = Today(now)

\* A flight written for raw record r: its flight number and scheduled time.
WrittenFor(r, dir, list) ==
    \E f \in Range(list) :
        /\ f.flightNumber \in RawFlightNumbers(r)
        /\ f.scheduled = RawScheduled(r, dir)

\* C8: in the scripts that filter by day (AeroAPI, AviationStack; the scrape
\* has no day filter), a raw record that has a flight number is written if and
\* only if its scheduled time, taken to America/Mexico_City, is on today's
\* date there.
C8_DayFilterIsLocalDate ==
    (pc = "saved" /\ variant \in {"aero", "avstack"}) =>
        /\ \A k \in 1..Len(rawArr) :
               RawFlightNumbers(rawArr[k]) # {} =>
                   (WrittenFor(rawArr[k], "arr", arrivals)
                        <=> ScheduledToday(RawScheduled(rawArr[k], "arr")))
        /\ \A k \in 1..Len(rawDep) :
               RawFlightNumbers(rawDep[k]) # {} =>
                   (WrittenFor(rawDep[k], "dep", departures)
                        <=> ScheduledToday(RawScheduled(rawDep[k], "dep")))

\* The time a scheduled value sorts by: the instant of an ISO timestamp, the
\* minute of the day of a bare "H:MM" (12-hour with AM/PM, else as written).
SchedKey(t) ==
    IF t.kind = "iso" THEN Instant(t)
    ELSE IF t.ampm = "" THEN t.tod
    ELSE (t.tod % (12 * 60)) + (IF t.ampm = "PM" THEN 12 * 60 ELSE 0)

\* a must come before b: a has a time and b has none or a later one.
SchedBefore(a, b) ==
    /\ ~TsFalsy(a.scheduled)
    /\ TsFalsy(b.scheduled) \/ SchedKey(a.scheduled) < SchedKey(b.scheduled)

SortedByScheduled(flights) ==
    \A i, j \in 1..Len(flights) :
        i < j => ~SchedBefore(flights[j], flights[i])

\* C9: every list written is in non-decreasing order of scheduled, flights
\* without a scheduled time last.
C9_SortedByScheduled ==
    \A list \in WrittenLists : SortedByScheduled(list)

\* What the running script makes of the one raw record r: <<>> or <<flight>>.
ProcessOne(r, dir) ==
    CASE variant = "aero" ->
            AeroProcessFlights(<<r>>, IF dir = "arr" THEN "arrival" ELSE "departure", now)
      [] variant = "avstack" ->
            AvProcessFlights(<<r>>, IF dir = "arr" THEN "arrival" ELSE "departure", now)
      [] variant = "scrape" ->
            ScrapeRows(<<r>>, IF dir = "arr" THEN "arrivals" ELSE "departures")

\* Two raw records of one direction yield the same flight number, one with
\* status Scheduled and one with status Landed: then the list written holds
\* exactly one flight of that number, and it is Landed.
DedupKeepsLanded(raw, dir, list) ==
    \A i, j \in 1..Len(raw) :
        LET a == ProcessOne(raw[i], dir)
            b == ProcessOne(raw[j], dir)
        IN  (/\ a # <<>> /\ b # <<>>
             /\ a[1].flightNumber = b[1].flightNumber
             /\ a[1].status = "Scheduled" /\ b[1].status = "Landed")
            => /\ Cardinality({k \in 1..Len(list) :
                       list[k].flightNumber = a[1].flightNumber}) = 1
               /\ \A k \in 1..Len(list) :
                      list[k].flightNumber = a[1].flightNumber
                          => list[k].status = "Landed"

\* C10: of two raw records of one direction that share a flight number, one
\* Scheduled and one Landed, exactly one flight is written, the Landed one.
C10_DedupKeepsLanded ==
    pc = "saved" =>
        /\ DedupKeepsLanded(rawArr, "arr", arrivals)
        /\ DedupKeepsLanded(rawDep, "dep", departures)

\* The closed enumeration of Flight statuses.
StatusEnum ==
    {"Scheduled", "En Route", "Landed", "Departed", "Delayed", "Cancelled",
     "Diverted", "Incident"}

\* C11: every flight of every Snapshot written has a status of the closed
\* enumeration, whatever status text or flags the upstream sent.
C11_StatusInEnum ==
    \A list \in WrittenLists : \A f \in Range(list) : f.status \in StatusEnum

\* The request for data/flights.json did not succeed, or the Snapshot loaded
\* carries an error field.
LoadFailed ==
    \/ response \in {"rejected", "notOk", "badJson"}
    \/ flightData # <<>> /\ ~Falsy(flightData[1].error)

\* C12: once loading is over, when the response was not a success or the
\* Snapshot loaded carries an error field, the table shows the localized
\* error message, not the empty-list message and not flight rows.
C12_ErrorShown ==
    (cpc = "done" /\ LoadFailed) =>
        (flightTbody.kind = "error" /\ flightTbody.text = LoadErrorText(lang))

\* fetchSt of a direction whose scrape returned [] for a bot-protection page,
\* a missing table or an exception caught inside scrapeFlights.
Handled == {"blocked", "noTable", "caught"}

\* main's list of a direction, and the rows its scrape found.
ListOf(dir) == IF dir = "arr" THEN arrivals ELSE departures

RowsOf(dir) == IF dir = "arr" THEN rawArr ELSE rawDep

\* C13: in the scrape, when a direction's scrape has returned on a
\* bot-protection page, a missing table or a caught exception, that
\* direction's list is empty, the other direction's list is what its own
\* scrape produced, main is not sent to its catch block by it, and the
\* Snapshot the run then writes is the one assembled from the two lists, with
\* no error field.
C13_ScrapeFailureIsolated ==
    \A dir \in Dirs :
        (variant = "scrape" /\ fetchSt[dir] \in Handled) =>
            /\ ListOf(dir) = <<>>
            /\ fetchSt[Other(dir)] = "ok" =>
                   ListOf(Other(dir)) =
                       ScrapeRows(RowsOf(Other(dir)),
                                  IF dir = "arr" THEN "departures" ELSE "arrivals")
            /\ failure = "none" =>
                   /\ pc \in {"delay", "scrapeDep", "assemble", "saved", "exited"}
                   /\ pc \in {"saved", "exited"} =>
                          /\ Len(writes) = 1 /\ file = <<writes[1]>>
                          /\ writes[1].error = UNDEFINED
                          /\ writes[1].arrivals = arrivals
                          /\ writes[1].departures = departures
                   /\ pc = "exited" => exitCode = 0

\* C13 witness: the arrivals scrape met a bot-protection page, the departures
\* scrape found flights, and the Snapshot written holds them and no error.
C13_Witness ==
    /\ pc = "saved" /\ fetchSt["arr"] = "blocked" /\ fetchSt["dep"] = "ok"
    /\ file[1].arrivals = <<>> /\ Len(file[1].departures) >= 1
    /\ file[1].error = UNDEFINED

\* C14: in the AviationStack script, whose two fetches run concurrently, once
\* either direction's fetch has failed the run never assembles: every
\* document it writes is the degraded Snapshot with both lists empty, whether
\* the other fetch resolved before, resolves after or never does, and the run
\* ends with exit code 1 and that one document in the file.
C14_EitherFailureAborts ==
    (variant = "avstack" /\ \E dir \in Dirs : fetchSt[dir] = "failed") =>
        /\ pc \in {"catch", "catchExit", "exited"}
        /\ \A i \in 1..Len(writes) : IsDegraded(writes[i])
        /\ exited =>
               /\ exitCode = 1
               /\ Len(writes) = 1 /\ file = <<writes[1]>>

\* C14 witness: the arrivals fetch resolved with records of today, the
\* departures fetch failed, and the run has ended on the degraded Snapshot.
C14_Witness ==
    /\ variant = "avstack" /\ exited
    /\ fetchSt["arr"] = "ok" /\ AvProcessFlights(rawArr, "arrival", now) # <<>>
    /\ fetchSt["dep"] = "failed"
    /\ file # <<>> /\ IsDegraded(file[1])

\* C15: the example arrival record, processed as the one arrival of a run of
\* the AviationStack script, gives exactly one flight: AM123 of Aeromexico
\* from LAX (LAX), no destination, scheduled at the arrival's scheduled time,
\* En Route.
C15_ExampleArrival ==
    (variant = "avstack" /\ pc = "saved" /\ rawArr = <<ExampleArrival>>) =>
        /\ Len(arrivals) = 1 /\ file[1].arrivals = arrivals
        /\ arrivals[1].flightNumber = "AM123"
        /\ arrivals[1].airline = "Aeromexico"
        /\ arrivals[1].origin = "LAX"
        /\ arrivals[1].originCode = "LAX"
        /\ arrivals[1].destination = NULL
        /\ arrivals[1].scheduled = ExampleArrival.arrival_scheduled
        /\ arrivals[1].status = "En Route"

\* The airline name and the carrier code a raw record carries (the page the
\* scrape reads names no airline; its carrier code is the letters the flight
\* number starts with).
RawAirlineName(r) ==
    CASE variant = "aero" -> r.operator_name
      [] variant = "avstack" -> r.airline_name
      [] variant = "scrape" -> UNDEFINED

RawCarrierCode(r) ==
    CASE variant = "aero" -> r.operator
      [] variant = "avstack" -> Or(r.airline_iata, r.airline_icao)
      [] variant = "scrape" -> AlphaPrefix(RowFlightNumber(r))

Placeholders == {"Unknown", "Unknown Airline", EmDash}

\* airline is the record's airline name; without one the table's name for its
\* carrier code; without an entry the code; without a code a placeholder.
AirlineResolved(r, airline) ==
    IF ~Falsy(RawAirlineName(r)) THEN airline = RawAirlineName(r)
    ELSE IF RawCarrierCode(r) \in DOMAIN AirlineTable
         THEN airline = AirlineTable[RawCarrierCode(r)]
    ELSE IF ~Falsy(RawCarrierCode(r)) THEN airline = RawCarrierCode(r)
    ELSE airline \in Placeholders

AirlinesResolved(raw, dir) ==
    \A k \in 1..Len(raw) :
        ProcessOne(raw[k], dir) # <<>> =>
            AirlineResolved(raw[k], ProcessOne(raw[k], dir)[1].airline)

\* C16: in every script, the airline of every flight written is resolved
\* from its raw record in the order name, table entry of the carrier code,
\* carrier code, placeholder.
C16_AirlineResolution ==
    pc = "saved" =>
        /\ AirlinesResolved(rawArr, "arr")
        /\ AirlinesResolved(rawDep, "dep")

\* The status of an arrival by the precedence of the flag-based inference:
\* cancelled, diverted, landed (actual_on), left its origin (actual_off),
\* an estimated time, none of these.
ArrivalStatus(r) ==
    IF r.cancelled THEN "Cancelled"
    ELSE IF r.diverted THEN "Diverted"
    ELSE IF ~TsFalsy(r.actual_on) THEN "Landed"
    ELSE IF ~TsFalsy(r.actual_off) THEN "En Route"
    ELSE IF ~TsFalsy(r.estimated_on) \/ ~TsFalsy(r.estimated_off) THEN "En Route"
    ELSE "Scheduled"

\* C17: every arrival the AeroAPI script writes has the status that
\* precedence gives its raw record; an arrival with actual_off and without
\* actual_on is En Route.
C17_ArrivalPrecedence ==
    (variant = "aero" /\ pc = "saved") =>
        \A k \in 1..Len(rawArr) :
            ProcessOne(rawArr[k], "arr") # <<>> =>
                ProcessOne(rawArr[k], "arr")[1].status = ArrivalStatus(rawArr[k])

\* C18: every departure the AeroAPI script writes from a raw record that is
\* neither cancelled nor diverted is Departed when the record has actual_off
\* and Scheduled when it has not.
C18_DepartureStatus ==
    (variant = "aero" /\ pc = "saved") =>
        \A k \in 1..Len(rawDep) :
            (/\ ProcessOne(rawDep[k], "dep") # <<>>
             /\ ~rawDep[k].cancelled /\ ~rawDep[k].diverted) =>
                ProcessOne(rawDep[k], "dep")[1].status =
                    (IF ~TsFalsy(rawDep[k].actual_off) THEN "Departed"
                     ELSE "Scheduled")

\* The free-text status of a raw record.
RawStatusText(r) ==
    CASE variant = "scrape" -> r.statusText
      [] variant = "avstack" -> r.flight_status

\* The first letter of every word in upper case, on the texts the model draws
\* that hold no keyword.
TitleCase(text) ==
    CASE text = "unknown" -> "Unknown"
      [] OTHER -> text

\* The status of a free text by the priority cancelled, en route / active /
\* in air, landed / arrived, departed, delayed, scheduled, matched as
\* substrings of the lower-cased text; a text with no keyword title-cased.
FreeTextStatus(text) ==
    LET k == KeywordsIn(text)
    IN  IF k \cap {"cancelled", "canceled"} # {} THEN "Cancelled"
        ELSE IF k \cap {"en route", "active", "in air"} # {} THEN "En Route"
        ELSE IF k \cap {"landed", "arrived"} # {} THEN "Landed"
        ELSE IF "departed" \in k THEN "Departed"
        ELSE IF "delayed" \in k THEN "Delayed"
        ELSE IF "scheduled" \in k THEN "Scheduled"
        ELSE TitleCase(text)

FreeTextMapped(raw, dir) ==
    \A k \in 1..Len(raw) :
        (ProcessOne(raw[k], dir) # <<>> /\ ~Falsy(RawStatusText(raw[k]))) =>
            ProcessOne(raw[k], dir)[1].status =
                FreeTextStatus(RawStatusText(raw[k]))

\* C19: in the scripts whose upstream gives a status text (scrape,
\* AviationStack), every flight written from a record with a status text has
\* the status of the highest-priority keyword class the text holds, and the
\* text title-cased when it holds none.
C19_FreeTextPriority ==
    (variant \in {"scrape", "avstack"} /\ pc = "saved") =>
        /\ FreeTextMapped(rawArr, "arr")
        /\ FreeTextMapped(rawDep, "dep")

\* fetchSt of a direction whose fetch or scrape has finished, with its raw
\* data or with its empty fallback.
Settled == {"ok"} \cup Handled

BothSettled == \A dir \in Dirs : fetchSt[dir] \in Settled

BarrierHolds ==
    /\ pc \in {"assemble", "saved"} => BothSettled
    /\ (\E i \in 1..Len(writes) : ~IsDegraded(writes[i])) => BothSettled
    /\ (variant \in {"aero", "avstack"}
            /\ (arrivals # <<>> \/ departures # <<>>)) => BothSettled
    /\ (variant = "scrape" /\ (pc = "scrapeDep" \/ fetchSt["dep"] # "idle"))
           => fetchSt["arr"] \in Settled

\* main comes to the departures scrape from the pause only.
PauseBeforeDepartures ==
    (pc # "scrapeDep" /\ pc' = "scrapeDep") => pc = "delay"

TimeOf(flight) ==
    IF ~TsFalsy(flight.scheduled) THEN flight.scheduled ELSE flight.estimated

\* No flight with a time stands after a flight with a later time.
InTimeOrder(flights) ==
    \A i, j \in 1..Len(flights) :
        (i < j /\ ~TsFalsy(TimeOf(flights[i])) /\ ~TsFalsy(TimeOf(flights[j])))
            => SchedKey(TimeOf(flights[i])) <= SchedKey(TimeOf(flights[j]))

\* The orders in which n flights can be shown.
Orders(n) == {p \in [1..n -> 1..n] : \A i, j \in 1..n : p[i] = p[j] => i = j}

\* rows are the rows of the flights of list, put in order of time.
RowsInTimeOrder(list, rows) ==
    \E p \in Orders(Len(list)) :
        LET shown == [i \in 1..Len(list) |-> list[p[i]]]
        IN  /\ InTimeOrder(shown)
            /\ rows = [i \in 1..Len(list) |->
                          CreateFlightRow(shown[i], currentTab, lang)]

\* The list of the Snapshot loaded that the current tab shows.
CurrentList ==
    IF currentTab = "arrivals" THEN flightData[1].arrivals
    ELSE flightData[1].departures

\* C21: when the Snapshot loaded has no error and the current tab's list has
\* flights, the table holds their rows in non-decreasing order of scheduled
\* (estimated without one), for ISO timestamps and for bare times of day, and
\* flightData holds the lists as the file gave them.
C21_RowsSortedByTime ==
    (cpc = "done" /\ flightData # <<>> /\ Falsy(flightData[1].error)) =>
        /\ flightData = <<file[1]>>
        /\ CurrentList # <<>> =>
               (flightTbody.kind = "rows"
                    /\ RowsInTimeOrder(CurrentList, flightTbody.rows))

\* C22: no run of the scrape ends with the browser it launched left open:
\* on every path to the end of the process, the one through main's catch
\* block included, browser.close() has run.
C22_BrowserClosedAtExit ==
    (variant = "scrape" /\ exited /\ browser # "none") => browser = "closed"

\* The table shows list: the empty row of the current tab for an empty list,
\* else one row for each of its flights.
TableShows(list) ==
    IF list = <<>> THEN flightTbody = ShowEmpty(currentTab, lang)
    ELSE /\ flightTbody.kind = "rows"
         /\ Len(flightTbody.rows) = Len(list)
         /\ Range(flightTbody.rows) =
                {CreateFlightRow(f, currentTab, lang) : f \in Range(list)}

\* After a load that succeeded the table shows the current tab's list; after
\* one that failed flightData is null and the table shows the error row.
TableFollowsTab ==
    /\ response = "parsed" =>
           (flightData = <<file[1]>> /\ TableShows(CurrentList))
    /\ response \in {"rejected", "notOk", "badJson"} =>
           (flightData = <<>> /\ flightTbody = ShowError(LoadErrorText(lang)))

\* A click makes its tab the current one, a click on the current tab changes
\* nothing at all, and nothing but a click changes the current tab.
TabFollowsClicks ==
    /\ \A tab \in {"arrivals", "departures"} :
           ClickTab(tab) =>
               /\ currentTab' = tab
               /\ tab = currentTab => UNCHANGED cvars
    /\ (DOMContentLoaded \/ LoadFetchSettle \/ LoadJsonSettle)
           => currentTab' = currentTab

\* C23: however tab clicks interleave with the two awaits of the load, after
\* a successful load the table shows the list (or the empty row) of
\* currentTab, currentTab is the last tab clicked (arrivals before any
\* click), a click on the current tab changes nothing, and after a failed
\* load flightData stays null and the error row stays.
C23_TabsAndLoadInterleave ==
    /\ [](currentTab = "arrivals" \/ cpc # "loading")
    /\ []TableFollowsTab
    /\ [][TabFollowsClicks]_<<vars, cvars>>

\* C23 witness: the departures tab was clicked, the load has succeeded with a
\* Snapshot whose two lists differ, and the table shows the departures.
C23_Witness ==
    /\ cpc = "done" /\ response = "parsed" /\ currentTab = "departures"
    /\ flightData[1].departures # <<>>
    /\ flightData[1].arrivals # flightData[1].departures
    /\ flightTbody.kind = "rows"

\* C24: a run writes the output file at most once, and in full: what it
\* writes is either the Snapshot assembled from this run's lists or the
\* degraded Snapshot, made of this run's values alone whatever the file held
\* before, never one after the other; once written, the file holds exactly
\* that document to the end of the run.
C24_WrittenOnceInFull ==
    /\ Len(writes) <= 1
    /\ writes = <<>> => file \in {<<>>, <<OldSnapshot(variant)>>}
    /\ writes # <<>> =>
           /\ file = <<writes[1]>>
           /\ writes[1] \in {FlightData(variant, now, arrivals, departures),
                             EmptyData(variant, now)}
           /\ IsDegraded(writes[1]) <=> failure # "none"

\* C24 witness: a run has ended after writing flights of its own, once; the
\* file holds that document and not the one of an earlier run.
C24_Witness ==
    /\ exited /\ exitCode = 0 /\ Len(writes) = 1
    /\ writes[1].arrivals # <<>>
    /\ file = <<writes[1]>> /\ file # <<OldSnapshot(variant)>>

====
